---- MODULE Spec2Model ----
(***************************************************************************)
(* Model of index/scorch/segment/mem/build.go: NewFromAnalyzedDocs builds  *)
(* one in-memory segment from a batch of analysis results in two passes    *)
(* (initializeDict, then processDocument per document) and sorts the term  *)
(* lists.                                                                  *)
(*                                                                         *)
(* Go slices are 0-based and TLA+ sequences 1-based: slice element i is    *)
(* sequence element i+1.  Go maps are functions whose DOMAIN is the key    *)
(* set.  Ranging over a Go map visits the keys in an unspecified order, so *)
(* every `range` over a map is the set of the outcomes of all orders.      *)
(* Terms are byte strings, modelled as sequences of byte values.           *)
(***************************************************************************)
EXTENDS Integers, Sequences, FiniteSets, TLC

VARIABLES
    batch,     \* the analysis results of the batch, as the analysis produced them
    results,   \* results[r]: the []*index.AnalysisResult build r is called with
    seg,       \* seg[r]: the segment build r works on
    pc,        \* pc[r]: where build r is in NewFromAnalyzedDocs
    next       \* next[r]: position of build r's loop over results (0-based)

vars == <<batch, results, seg, pc, next>>

\* The builds.  Each is called with its own copy of the batch.
Runs == {1, 2}

\* A map with no key.
EmptyMap == <<>>

\* Go's zero value of a map lookup: m[k] when k is a key, zero otherwise.
Lookup(m, k, zero) == IF k \in DOMAIN m THEN m[k] ELSE zero

\* m[k] = v on a Go map.
MapSet(m, k, v) == [x \in DOMAIN m \cup {k} |-> IF x = k THEN v ELSE m[x]]

(***************************************************************************)
(* The segment                                                             *)
(***************************************************************************)

\* mem.New(): a segment with every structure empty.
New ==
    [FieldsMap |-> EmptyMap, FieldsInv |-> <<>>,
     Dicts |-> <<>>, DictKeys |-> <<>>,
     Postings |-> <<>>, PostingsLocs |-> <<>>,
     Freqs |-> <<>>, Norms |-> <<>>,
     Locfields |-> <<>>, Locstarts |-> <<>>, Locends |-> <<>>,
     Locpos |-> <<>>, Locarraypos |-> <<>>,
     Stored |-> <<>>, StoredTypes |-> <<>>, StoredPos |-> <<>>,
     DocValueFields |-> EmptyMap]

\* getOrDefineField giving a new field two dictionaries.
getOrDefineField_TwoDicts(s, name) ==
    IF name \in DOMAIN s.FieldsMap
    THEN [s |-> s, id |-> s.FieldsMap[name] - 1]
    ELSE LET fieldID == Len(s.FieldsInv) + 1
         IN  [s |-> [s EXCEPT !.FieldsMap = MapSet(@, name, fieldID),
                              !.FieldsInv = Append(@, name),
                              !.Dicts = Append(Append(@, EmptyMap), EmptyMap),
                              !.DictKeys = Append(@, <<>>)],
              id |-> fieldID - 1]

\* getOrDefineField: the segment afterwards and the 0-based id returned.
\* FieldsMap holds id+1.
getOrDefineField(s, name) ==
    IF name \in DOMAIN s.FieldsMap
    THEN [s |-> s, id |-> s.FieldsMap[name] - 1]
    ELSE LET fieldID == Len(s.FieldsInv) + 1
         IN  [s |-> [s EXCEPT !.FieldsMap = MapSet(@, name, fieldID),
                              !.FieldsInv = Append(@, name),
                              !.Dicts = Append(@, EmptyMap),
                              !.DictKeys = Append(@, <<>>)],
              id |-> fieldID - 1]

\* addDocument numbering the documents from 1.
addDocument_FromOne(s) ==
    [s |-> [s EXCEPT !.Stored = Append(@, EmptyMap),
                     !.StoredTypes = Append(@, EmptyMap),
                     !.StoredPos = Append(@, EmptyMap)],
     docNum |-> Len(s.Stored) + 1]

\* addDocument: the segment afterwards and the document number returned.
addDocument(s) ==
    [s |-> [s EXCEPT !.Stored = Append(@, EmptyMap),
                     !.StoredTypes = Append(@, EmptyMap),
                     !.StoredPos = Append(@, EmptyMap)],
     docNum |-> Len(s.Stored)]

\* encodeFieldType: the type byte of a field's kind.
encodeFieldType(f) ==
    CASE f.kind = "TextField" -> "t"
      [] f.kind = "NumericField" -> "n"
      [] f.kind = "DateTimeField" -> "d"
      [] f.kind = "BooleanField" -> "b"
      [] f.kind = "GeoPointField" -> "g"
      [] f.kind = "CompositeField" -> "c"
      [] OTHER -> "x"

\* CompositeField.Analyze(): the field's total length and its term frequencies.
Analyze(field) == [l |-> field.l, tf |-> field.tf]

(***************************************************************************)
(* initializeDict                                                          *)
(***************************************************************************)

\* The loop body counting the ordinals of each field on their own.
DictVisitTerm_PerField(st, fieldID, term) ==
    IF term \in DOMAIN st.s.Dicts[fieldID + 1]
    THEN st
    ELSE LET n == Cardinality(DOMAIN st.s.Dicts[fieldID + 1]) + 1
         IN  [s |-> [st.s EXCEPT !.Dicts[fieldID + 1] = MapSet(@, term, n),
                                 !.DictKeys[fieldID + 1] = Append(@, term)],
              numPostings |-> IF n > st.numPostings THEN n ELSE st.numPostings]

\* One iteration of processField's loop body; st = [s, numPostings].
DictVisitTerm(st, fieldID, term) ==
    IF term \in DOMAIN st.s.Dicts[fieldID + 1]
    THEN st
    ELSE LET n == st.numPostings + 1
         IN  [s |-> [st.s EXCEPT !.Dicts[fieldID + 1] = MapSet(@, term, n),
                                 !.DictKeys[fieldID + 1] = Append(@, term)],
              numPostings |-> n]

\* `for term, _ := range tf` over the keys in todo: the outcomes of every order.
RECURSIVE DictRange(_, _, _)
DictRange(st, fieldID, todo) ==
    IF todo = {}
    THEN {st}
    ELSE UNION {DictRange(DictVisitTerm(st, fieldID, t), fieldID, todo \ {t}) : t \in todo}

\* initializeDict's processField closure.
DictProcessField(st, fieldID, tf) == DictRange(st, fieldID, DOMAIN tf)

\* The dictionary pass leaving the composite fields out.
DictWalkComposites_Skip(sts, result, k) == sts

\* The loop over a result's composite fields, from the k-th on, on each of sts.
RECURSIVE DictWalkComposites(_, _, _)
DictWalkComposites(sts, result, k) ==
    IF k > Len(result.Document.CompositeFields)
    THEN sts
    ELSE LET field == result.Document.CompositeFields[k]
             step(st) ==
                 LET g == getOrDefineField(st.s, field.name)
                 IN  DictProcessField([st EXCEPT !.s = g.s], g.id, Analyze(field).tf)
         IN  DictWalkComposites(UNION {step(st) : st \in sts}, result, k + 1)

\* The regular fields in `todo` walked in any order.
RECURSIVE DictWalkFieldSet(_, _, _)
DictWalkFieldSet(sts, result, todo) ==
    IF todo = {}
    THEN sts
    ELSE UNION {LET field == result.Document.Fields[k]
                    step(st) ==
                        LET g == getOrDefineField(st.s, field.name)
                        IN  DictRange([st EXCEPT !.s = g.s], g.id,
                                      DOMAIN result.Analyzed[k])
                IN  DictWalkFieldSet(UNION {step(st) : st \in sts}, result, todo \ {k}) :
                   k \in todo}

\* The loop over the regular fields as if they were the entries of a map.
DictWalkFields_AnyOrder(sts, result, k) ==
    DictWalkFieldSet(sts, result, k..Len(result.Document.Fields))

\* The loop over a result's regular fields, from the k-th on, on each of sts.
RECURSIVE DictWalkFields(_, _, _)
DictWalkFields(sts, result, k) ==
    IF k > Len(result.Document.Fields)
    THEN sts
    ELSE LET field == result.Document.Fields[k]
             step(st) ==
                 LET g == getOrDefineField(st.s, field.name)
                 IN  DictProcessField([st EXCEPT !.s = g.s], g.id, result.Analyzed[k])
         IN  DictWalkFields(UNION {step(st) : st \in sts}, result, k + 1)

\* The loop over the results walking a document's regular fields before its
\* composite fields.
RECURSIVE DictWalkResults_FieldsFirst(_, _, _)
DictWalkResults_FieldsFirst(sts, rs, i) ==
    IF i > Len(rs)
    THEN sts
    ELSE DictWalkResults_FieldsFirst(
             DictWalkComposites(DictWalkFields(sts, rs[i], 1), rs[i], 1), rs, i + 1)

\* The loop over the results, from the i-th on.
RECURSIVE DictWalkResults(_, _, _)
DictWalkResults(sts, rs, i) ==
    IF i > Len(rs)
    THEN sts
    ELSE DictWalkResults(
             DictWalkFields(DictWalkComposites(sts, rs[i], 1), rs[i], 1), rs, i + 1)

\* The preallocation with one slot too many in the location arrays.
DictAllocate_ExtraSlot(st) ==
    LET slots(v) == [i \in 1..st.numPostings |-> v]
        more(v) == [i \in 1..(st.numPostings + 1) |-> v]
    IN  [st.s EXCEPT !.Postings = slots({}), !.PostingsLocs = slots({}),
                     !.Freqs = slots(<<>>), !.Norms = slots(<<>>),
                     !.Locfields = more(<<>>), !.Locstarts = more(<<>>),
                     !.Locends = more(<<>>), !.Locpos = more(<<>>),
                     !.Locarraypos = more(<<>>)]

\* The preallocation allocating a document as well.
DictAllocate_WithDocument(st) ==
    LET slots(v) == [i \in 1..st.numPostings |-> v]
    IN  [st.s EXCEPT !.Postings = slots({}), !.PostingsLocs = slots({}),
                     !.Freqs = slots(<<>>), !.Norms = slots(<<>>),
                     !.Locfields = slots(<<>>), !.Locstarts = slots(<<>>),
                     !.Locends = slots(<<>>), !.Locpos = slots(<<>>),
                     !.Locarraypos = slots(<<>>),
                     !.Stored = <<EmptyMap>>, !.StoredTypes = <<EmptyMap>>,
                     !.StoredPos = <<EmptyMap>>]

\* The preallocation: numPostings slots in every postings array.
DictAllocate(st) ==
    LET slots(v) == [i \in 1..st.numPostings |-> v]
    IN  [st.s EXCEPT !.Postings = slots({}), !.PostingsLocs = slots({}),
                     !.Freqs = slots(<<>>), !.Norms = slots(<<>>),
                     !.Locfields = slots(<<>>), !.Locstarts = slots(<<>>),
                     !.Locends = slots(<<>>), !.Locpos = slots(<<>>),
                     !.Locarraypos = slots(<<>>)]

\* initializeDict: the segments it can leave.
initializeDict(s, rs) ==
    {DictAllocate(st) : st \in DictWalkResults({[s |-> s, numPostings |-> 0]}, rs, 1)}

(***************************************************************************)
(* processDocument                                                         *)
(***************************************************************************)

\* A reference to one term-frequency map of a result: the map a composite
\* field's Analyze() returns, or result.Analyzed[i].  ref.i is 1-based.
CompositeRef(k) == [kind |-> "composite", i |-> k]
AnalyzedRef(k) == [kind |-> "analyzed", i |-> k]

\* The map a reference points to.
Deref(result, ref) ==
    IF ref.kind = "composite"
    THEN Analyze(result.Document.CompositeFields[ref.i]).tf
    ELSE result.Analyzed[ref.i]

\* The result after the map a reference points to has been changed in place.
StoreRef(result, ref, tf) ==
    IF ref.kind = "composite"
    THEN [result EXCEPT !.Document.CompositeFields[ref.i].tf = tf]
    ELSE [result EXCEPT !.Analyzed[ref.i] = tf]

\* TokenFrequencies.MergeAll(remoteField, other) on the map `existing`: the
\* map afterwards.  Frequencies add up, location lists are concatenated, and
\* a term `existing` does not hold gets a new entry with other's values.
MergeAll(existing, remoteField, other) ==
    [t \in DOMAIN existing \cup DOMAIN other |->
        IF t \notin DOMAIN other THEN existing[t]
        ELSE IF t \notin DOMAIN existing THEN other[t]
        ELSE [frequency |-> existing[t].frequency + other[t].frequency,
              Locations |-> existing[t].Locations \o other[t].Locations]]

\* processField replacing the map of a field it has seen instead of merging.
DocProcessField_NoMerge(ps, field, name, l, ref) ==
    [ps EXCEPT !.fieldLens = MapSet(@, field, Lookup(@, field, 0) + l),
               !.docMap = MapSet(@, field, ref)]

\* processField keeping the length of the last occurrence of a field only.
DocProcessField_LastLength(ps, field, name, l, ref) ==
    LET lens == MapSet(ps.fieldLens, field, l)
    IN  IF field \in DOMAIN ps.docMap
        THEN LET existingFreqs == ps.docMap[field]
             IN  [ps EXCEPT !.fieldLens = lens,
                            !.result = StoreRef(@, existingFreqs,
                                MergeAll(Deref(@, existingFreqs), name, Deref(@, ref)))]
        ELSE [ps EXCEPT !.fieldLens = lens, !.docMap = MapSet(@, field, ref)]

\* processDocument's processField closure.  ps = [s, result, docMap,
\* fieldLens, docNum]; docMap[field] is a reference: `docMap[field] = tf`
\* stores the caller's map itself, and MergeAll then changes that map.
DocProcessField(ps, field, name, l, ref) ==
    LET lens == MapSet(ps.fieldLens, field, Lookup(ps.fieldLens, field, 0) + l)
    IN  IF field \in DOMAIN ps.docMap
        THEN LET existingFreqs == ps.docMap[field]
             IN  [ps EXCEPT !.fieldLens = lens,
                            !.result = StoreRef(@, existingFreqs,
                                MergeAll(Deref(@, existingFreqs), name, Deref(@, ref)))]
        ELSE [ps EXCEPT !.fieldLens = lens, !.docMap = MapSet(@, field, ref)]

\* storeField replacing what the document has stored under the field.
storeField_Overwrite(s, docNum, field, typ, val, pos) ==
    [s EXCEPT !.Stored[docNum + 1] = MapSet(@, field, <<val>>),
              !.StoredTypes[docNum + 1] = MapSet(@, field, <<typ>>),
              !.StoredPos[docNum + 1] = MapSet(@, field, <<pos>>)]

\* processDocument's storeField closure.
storeField(s, docNum, field, typ, val, pos) ==
    [s EXCEPT !.Stored[docNum + 1] = MapSet(@, field, Append(Lookup(@, field, <<>>), val)),
              !.StoredTypes[docNum + 1] = MapSet(@, field, Append(Lookup(@, field, <<>>), typ)),
              !.StoredPos[docNum + 1] = MapSet(@, field, Append(Lookup(@, field, <<>>), pos))]

\* The loop over the composite fields, from the k-th on.
RECURSIVE DocWalkComposites(_, _)
DocWalkComposites(ps, k) ==
    IF k > Len(ps.result.Document.CompositeFields)
    THEN ps
    ELSE LET field == ps.result.Document.CompositeFields[k]
             g == getOrDefineField(ps.s, field.name)
             a == Analyze(field)
         IN  DocWalkComposites(
                 DocProcessField([ps EXCEPT !.s = g.s], g.id, field.name, a.l,
                                 CompositeRef(k)),
                 k + 1)

\* The loop body writing the option of the latest field into the flag.
DocStoreAndFlag_LastWins(s, docNum, fieldID, field) ==
    LET s1 == IF field.stored
              THEN storeField(s, docNum, fieldID, encodeFieldType(field),
                              field.value, field.arrayPositions)
              ELSE s
    IN  [s1 EXCEPT !.DocValueFields = MapSet(@, fieldID, field.docValues)]

\* What the body of the loop over the regular fields does after processField.
DocStoreAndFlag(s, docNum, fieldID, field) ==
    LET s1 == IF field.stored
              THEN storeField(s, docNum, fieldID, encodeFieldType(field),
                              field.value, field.arrayPositions)
              ELSE s
    IN  IF field.docValues
        THEN [s1 EXCEPT !.DocValueFields = MapSet(@, fieldID, TRUE)]
        ELSE s1

\* The loop over the regular fields, from the k-th on.
RECURSIVE DocWalkFields(_, _)
DocWalkFields(ps, k) ==
    IF k > Len(ps.result.Document.Fields)
    THEN ps
    ELSE LET field == ps.result.Document.Fields[k]
             g == getOrDefineField(ps.s, field.name)
             p1 == DocProcessField([ps EXCEPT !.s = g.s], g.id, field.name,
                                   ps.result.Length[k], AnalyzedRef(k))
         IN  DocWalkFields(
                 [p1 EXCEPT !.s = DocStoreAndFlag(@, ps.docNum, g.id, field)],
                 k + 1)

\* uint64 subtraction x - 1: 0 - 1 wraps to the largest uint64, which stands
\* here as MaxUint64 (larger than any slice length).
MaxUint64 == 2147483647

\* The subtraction stopping at 0 instead of wrapping.
Uint64Dec_Saturating(x) == IF x = 0 THEN 0 ELSE x - 1

Uint64Dec(x) == IF x = 0 THEN MaxUint64 ELSE x - 1

\* float32(1.0/math.Sqrt(float64(l))), kept exact as the l it is taken of.
InvSqrt(l) == [invSqrtOf |-> l]

\* An array-position path: a nil slice, or a slice with the given elements.
NilPath == [isNil |-> TRUE, path |-> <<>>]
Path(p) == [isNil |-> FALSE, path |-> p]

\* The loop body recording the collating field for every location.
DocVisitLocation_CollatingField(s, pid, fieldID, loc) ==
    [s EXCEPT !.Locfields[pid + 1] = Append(@, fieldID),
              !.Locstarts[pid + 1] = Append(@, loc.Start),
              !.Locends[pid + 1] = Append(@, loc.End),
              !.Locpos[pid + 1] = Append(@, loc.Position),
              !.Locarraypos[pid + 1] =
                  Append(@, IF Len(loc.ArrayPositions.path) > 0
                            THEN loc.ArrayPositions
                            ELSE NilPath)]

\* One iteration of the loop over tokenFreq.Locations.
DocVisitLocation(s, pid, fieldID, loc) ==
    LET g == IF loc.Field # ""
             THEN getOrDefineField(s, loc.Field)
             ELSE [s |-> s, id |-> fieldID]
    IN  [g.s EXCEPT !.Locfields[pid + 1] = Append(@, g.id),
                    !.Locstarts[pid + 1] = Append(@, loc.Start),
                    !.Locends[pid + 1] = Append(@, loc.End),
                    !.Locpos[pid + 1] = Append(@, loc.Position),
                    !.Locarraypos[pid + 1] =
                        Append(@, IF Len(loc.ArrayPositions.path) > 0
                                  THEN loc.ArrayPositions
                                  ELSE NilPath)]

\* The loop over tokenFreq.Locations, from the k-th on.
RECURSIVE DocWalkLocations(_, _, _, _, _)
DocWalkLocations(s, pid, fieldID, locs, k) ==
    IF k > Len(locs)
    THEN s
    ELSE DocWalkLocations(DocVisitLocation(s, pid, fieldID, locs[k]),
                          pid, fieldID, locs, k + 1)

\* The postings update appending a norm only for a term with locations.
DocAddPosting_NormWithLocations(s, pid, docNum, tokenFreq, l) ==
    [s EXCEPT !.Postings[pid + 1] = @ \cup {docNum},
              !.Freqs[pid + 1] = Append(@, tokenFreq.frequency),
              !.Norms[pid + 1] = IF Len(tokenFreq.Locations) > 0
                                 THEN Append(@, InvSqrt(l))
                                 ELSE @]

\* The postings update of one (field, term) pair.
DocAddPosting(s, pid, docNum, tokenFreq, l) ==
    [s EXCEPT !.Postings[pid + 1] = @ \cup {docNum},
              !.Freqs[pid + 1] = Append(@, tokenFreq.frequency),
              !.Norms[pid + 1] = Append(@, InvSqrt(l))]

\* The loop body entering the document in the location-membership set
\* whether or not the term has a location.
DocVisitTerm_AlwaysLocs(w, ps, fieldID, term, tokenFreq) ==
    LET fieldTermPostings == Lookup(w.s.Dicts[fieldID + 1], term, 0)
        pid == Uint64Dec(fieldTermPostings)
    IN  IF pid >= Len(w.s.Postings)
        THEN [w EXCEPT !.panic = TRUE]
        ELSE LET s1 == DocAddPosting(w.s, pid, ps.docNum, tokenFreq,
                                     ps.fieldLens[fieldID])
             IN  [w EXCEPT !.s = DocWalkLocations(
                     [s1 EXCEPT !.PostingsLocs[pid + 1] = @ \cup {ps.docNum}],
                     pid, fieldID, tokenFreq.Locations, 1)]

\* The body of the loop over the terms of one field of docMap.
\* w = [s, panic]: indexing s.Postings out of range panics.
DocVisitTerm(w, ps, fieldID, term, tokenFreq) ==
    LET fieldTermPostings == Lookup(w.s.Dicts[fieldID + 1], term, 0)
        pid == Uint64Dec(fieldTermPostings)
    IN  IF pid >= Len(w.s.Postings)
        THEN [w EXCEPT !.panic = TRUE]
        ELSE LET s1 == DocAddPosting(w.s, pid, ps.docNum, tokenFreq,
                                     ps.fieldLens[fieldID])
             IN  IF Len(tokenFreq.Locations) > 0
                 THEN [w EXCEPT !.s = DocWalkLocations(
                          [s1 EXCEPT !.PostingsLocs[pid + 1] = @ \cup {ps.docNum}],
                          pid, fieldID, tokenFreq.Locations, 1)]
                 ELSE [w EXCEPT !.s = s1]

\* `for term, tokenFreq := range tokenFrequencies` over the terms in todo:
\* the outcomes of every order; a panic ends the walk.
RECURSIVE DocRangeTerms(_, _, _, _)
DocRangeTerms(w, ps, fieldID, todo) ==
    IF w.panic \/ todo = {}
    THEN {w}
    ELSE LET tokenFrequencies == Deref(ps.result, ps.docMap[fieldID])
         IN  UNION {DocRangeTerms(
                        DocVisitTerm(w, ps, fieldID, t, tokenFrequencies[t]),
                        ps, fieldID, todo \ {t}) : t \in todo}

\* `for fieldID, tokenFrequencies := range docMap` over the fields in todo.
RECURSIVE DocRangeFields(_, _, _)
DocRangeFields(ws, ps, todo) ==
    IF todo = {}
    THEN ws
    ELSE UNION {DocRangeFields(
                    UNION {DocRangeTerms(w, ps, f,
                               DOMAIN Deref(ps.result, ps.docMap[f])) : w \in ws},
                    ps, todo \ {f}) : f \in todo}

\* The collation of one result: addDocument and the two loops over its fields.
DocCollate(s, result) ==
    LET a == addDocument(s)
        ps0 == [s |-> a.s, result |-> result, docMap |-> EmptyMap,
                fieldLens |-> EmptyMap, docNum |-> a.docNum]
    IN  DocWalkFields(DocWalkComposites(ps0, 1), 1)

\* processDocument: the outcomes [s, result, panic] it can have; result is
\* the caller's analysis result as the call leaves it.
processDocument(s, result) ==
    LET ps == DocCollate(s, result)
    IN  {[s |-> w.s, result |-> ps.result, panic |-> w.panic] :
            w \in DocRangeFields({[s |-> ps.s, panic |-> FALSE]}, ps, DOMAIN ps.docMap)}

(***************************************************************************)
(* sort.Strings                                                            *)
(***************************************************************************)

\* The comparison with the bytes compared the wrong way round.
RECURSIVE Less_Descending(_, _)
Less_Descending(a, b) ==
    IF b = <<>> THEN FALSE
    ELSE IF a = <<>> THEN TRUE
    ELSE IF a[1] # b[1] THEN a[1] > b[1]
    ELSE Less_Descending(Tail(a), Tail(b))

\* a < b on Go strings: byte-wise lexicographic order.
RECURSIVE Less(_, _)
Less(a, b) ==
    IF b = <<>> THEN FALSE
    ELSE IF a = <<>> THEN TRUE
    ELSE IF a[1] # b[1] THEN a[1] < b[1]
    ELSE Less(Tail(a), Tail(b))

\* x put into the sorted list l, after the elements not greater than it.
RECURSIVE SortInsert(_, _)
SortInsert(l, x) ==
    IF l = <<>> THEN <<x>>
    ELSE IF Less(x, l[1]) THEN <<x>> \o l
    ELSE <<l[1]>> \o SortInsert(Tail(l), x)

\* sort.Strings(l): l in ascending order.
RECURSIVE SortStrings(_)
SortStrings(l) ==
    IF l = <<>> THEN <<>>
    ELSE SortInsert(SortStrings(SubSeq(l, 1, Len(l) - 1)), l[Len(l)])

(***************************************************************************)
(* The batches                                                             *)
(***************************************************************************)

\* The documents of a batch, and the field occurrences (composite and
\* regular) of all its documents together.
MaxDocs == 2
MaxOcc == 2

\* The terms "cat" and "dog" as byte strings.
Cat == <<99, 97, 116>>
Dog == <<100, 111, 103>>

\* A term's entry of a term-frequency map.
TokenFreq(n, locs) == [frequency |-> n, Locations |-> locs]

\* A token location at position p of a text of single-letter-spaced words.
Location(name, p) ==
    [Field |-> name, Start |-> 4 * (p - 1), End |-> 4 * (p - 1) + 3,
     Position |-> p, ArrayPositions |-> NilPath]

\* The sum of the occurrence counts of a term-frequency map.
RECURSIVE TotalFrequency(_)
TotalFrequency(tf) ==
    IF DOMAIN tf = {} THEN 0
    ELSE LET t == CHOOSE x \in DOMAIN tf : TRUE
         IN  tf[t].frequency + TotalFrequency([x \in DOMAIN tf \ {t} |-> tf[x]])

\* A regular field with its analysis, and a composite field.
Regular(name, kind, stored, docValues, value, pos, tf) ==
    [field |-> [name |-> name, kind |-> kind, stored |-> stored,
                docValues |-> docValues, value |-> value, arrayPositions |-> pos],
     tf |-> tf, l |-> TotalFrequency(tf)]
Composite(name, tf) == [name |-> name, tf |-> tf, l |-> TotalFrequency(tf)]

\* The analysis result of a document with the given composite fields and
\* regular fields.
Result(comps, regs) ==
    [Document |-> [CompositeFields |-> comps,
                   Fields |-> [k \in 1..Len(regs) |-> regs[k].field]],
     Analyzed |-> [k \in 1..Len(regs) |-> regs[k].tf],
     Length |-> [k \in 1..Len(regs) |-> regs[k].l]]

\* The sequences over S of length n, and of length at most n.
RECURSIVE SeqsOfLen(_, _)
SeqsOfLen(S, n) ==
    IF n = 0 THEN {<<>>}
    ELSE {Append(q, x) : q \in SeqsOfLen(S, n - 1), x \in S}

\* The documents with exactly n field occurrences.
DocsOfSize(C, R, n) ==
    UNION {{Result(cs, rs) : cs \in SeqsOfLen(C, i), rs \in SeqsOfLen(R, n - i)} :
              i \in 0..n}

\* The batches of at most `docs` documents with at most `occ` field
\* occurrences in all.
RECURSIVE BatchesOf(_, _, _, _)
BatchesOf(C, R, docs, occ) ==
    IF docs = 0 THEN {<<>>}
    ELSE {<<>>} \cup
         UNION {{<<d>> \o b : d \in DocsOfSize(C, R, n),
                              b \in BatchesOf(C, R, docs - 1, occ - n)} :
                   n \in 0..occ}

\* The term-frequency maps of the texts "", "dog" and "dog cat dog", without
\* locations.
PlainTFs ==
    {EmptyMap,
     MapSet(EmptyMap, Dog, TokenFreq(1, <<>>)),
     MapSet(MapSet(EmptyMap, Cat, TokenFreq(1, <<>>)), Dog, TokenFreq(2, <<>>))}

PlainRegulars ==
    {Regular(name, "TextField", FALSE, FALSE, <<>>, <<>>, tf) :
        name \in {"body", "title"}, tf \in PlainTFs}

PlainComposites ==
    {Composite(name, MapSet(EmptyMap, Dog, TokenFreq(1, <<>>))) : name \in {"_all", "body"}}

PlainBatches == BatchesOf(PlainComposites, PlainRegulars, MaxDocs, MaxOcc)

\* The term "1", a document's identifier.
One == <<49>>

\* A location like Location(name, p), inside the array element i of its field.
LocationIn(name, p, i) == [Location(name, p) EXCEPT !.ArrayPositions = Path(<<i>>)]

\* Term-frequency maps with locations: "dog"; "dog cat dog", the cat in an
\* array element; "dog" counted without a location; and "cat dog" with
\* locations that name the fields "extra" and "more", the second with an
\* array-position path that is empty without being nil.
LocDog == MapSet(EmptyMap, Dog, TokenFreq(1, <<Location("", 1)>>))
LocDogCatDog ==
    MapSet(MapSet(EmptyMap, Cat, TokenFreq(1, <<LocationIn("", 2, 0)>>)),
           Dog, TokenFreq(2, <<Location("", 1), Location("", 3)>>))
LocDogBare == MapSet(EmptyMap, Dog, TokenFreq(1, <<>>))
LocCatDogElsewhere ==
    MapSet(MapSet(EmptyMap, Cat, TokenFreq(1, <<Location("extra", 1)>>)),
           Dog, TokenFreq(1, <<[Location("more", 2) EXCEPT
                                    !.ArrayPositions = Path(<<>>)]>>))

LocRegulars ==
    {Regular("body", "TextField", FALSE, FALSE, <<>>, <<>>, tf) :
        tf \in {LocDog, LocDogCatDog, LocDogBare, LocCatDogElsewhere}}
    \cup {Regular("title", "TextField", FALSE, FALSE, <<>>, <<>>, LocDog),
          Regular("_id", "TextField", FALSE, FALSE, <<>>, <<>>,
                  MapSet(EmptyMap, One, TokenFreq(1, <<>>)))}

\* The composite field "_all" with a "dog" taken from the field "body".
LocComposites ==
    {Composite("_all", MapSet(EmptyMap, Dog, TokenFreq(1, <<Location("body", 1)>>)))}

LocBatches == BatchesOf(LocComposites, LocRegulars, MaxDocs, MaxOcc)

\* Stored fields: one of every kind, each with its own value; a field with
\* doc values that is not stored; a stored array element with doc values;
\* and the identifier.
StoreRegulars ==
    {Regular("body", kv[1], TRUE, FALSE, kv[2], <<>>, LocDogBare) :
        kv \in {<<"TextField", <<116>>>>, <<"NumericField", <<110>>>>,
                <<"DateTimeField", <<100>>>>, <<"BooleanField", <<98>>>>,
                <<"GeoPointField", <<103>>>>, <<"CompositeField", <<99>>>>,
                <<"GeoShapeField", <<115>>>>}}
    \cup {Regular("body", "TextField", FALSE, TRUE, <<117>>, <<>>, LocDogBare),
          Regular("body", "TextField", TRUE, TRUE, <<97>>, <<0>>, EmptyMap),
          Regular("_id", "TextField", TRUE, FALSE, One, <<>>,
                  MapSet(EmptyMap, One, TokenFreq(1, <<>>)))}

\* The composite field "_all" with a "dog" whose location names the field
\* "extra", which no document carries.
StoreComposites ==
    {Composite("_all", MapSet(EmptyMap, Dog, TokenFreq(1, <<Location("extra", 1)>>)))}

StoreBatches == BatchesOf(StoreComposites, StoreRegulars, MaxDocs, MaxOcc)

(***************************************************************************)
(* NewFromAnalyzedDocs                                                     *)
(***************************************************************************)

InitOn(batches) ==
    /\ batch \in batches
    /\ results = [r \in Runs |-> batch]
    /\ seg = [r \in Runs |-> New]
    /\ pc = [r \in Runs |-> "idle"]
    /\ next = [r \in Runs |-> 0]

\* The start of a build without the registration of "_id".
Call_WithoutId(r) ==
    /\ pc[r] = "idle"
    /\ seg' = [seg EXCEPT ![r] = New]
    /\ pc' = [pc EXCEPT ![r] = "dict"]
    /\ UNCHANGED <<batch, results, next>>

\* s := New(); s.getOrDefineField("_id")
Call(r) ==
    /\ pc[r] = "idle"
    /\ seg' = [seg EXCEPT ![r] = getOrDefineField(New, "_id").s]
    /\ pc' = [pc EXCEPT ![r] = "dict"]
    /\ UNCHANGED <<batch, results, next>>

\* The sort of every term list (lines 43-45).
sortDictKeys(s) ==
    [s EXCEPT !.DictKeys = [f \in 1..Len(@) |-> SortStrings(@[f])]]

\* s.initializeDict(results), build r called with the batch object o.
InitializeDictOn(r, o) ==
    /\ pc[r] = "dict"
    /\ \E s \in initializeDict(seg[r], results[o]) :
           seg' = [seg EXCEPT ![r] = s]
    /\ pc' = [pc EXCEPT ![r] = "docs"]
    /\ UNCHANGED <<batch, results, next>>

\* One iteration of the loop over results: s.processDocument(result).  The
\* call works on the analysis result the batch object points to.
ProcessDocumentOn(r, o) ==
    /\ pc[r] = "docs"
    /\ next[r] < Len(results[o])
    /\ \E out \in processDocument(seg[r], results[o][next[r] + 1]) :
           /\ seg' = [seg EXCEPT ![r] = out.s]
           /\ results' = [results EXCEPT ![o][next[r] + 1] = out.result]
           /\ pc' = [pc EXCEPT ![r] = IF out.panic THEN "panic" ELSE "docs"]
    /\ next' = [next EXCEPT ![r] = @ + 1]
    /\ UNCHANGED batch

\* The sort of every term list once the loop is over, and the return.
SortDictKeysOn(r, o) ==
    /\ pc[r] = "docs"
    /\ next[r] = Len(results[o])
    /\ seg' = [seg EXCEPT ![r] = sortDictKeys(@)]
    /\ pc' = [pc EXCEPT ![r] = "done"]
    /\ UNCHANGED <<batch, results, next>>

\* The steps of build r called with its own batch object.
InitializeDict(r) == InitializeDictOn(r, r)
ProcessDocument(r) == ProcessDocumentOn(r, r)
SortDictKeys(r) == SortDictKeysOn(r, r)

Build(r) ==
    \/ Call(r)
    \/ InitializeDict(r)
    \/ ProcessDocument(r)
    \/ SortDictKeys(r)

\* One build.
Next == Build(1)

Spec == InitOn(PlainBatches) /\ [][Next]_vars

\* One build of a batch with token locations, and of one with stored fields.
SpecLoc == InitOn(LocBatches) /\ [][Next]_vars

SpecStore == InitOn(StoreBatches) /\ [][Next]_vars

\* Two builds of the same batch, the second called when the first has
\* returned.
Turn(r) == \A q \in Runs : q < r => pc[q] = "done"

NextTwo ==
    \/ \E r \in Runs : Turn(r) /\ Call(r)
    \/ \E r \in Runs : Turn(r) /\ InitializeDict(r)
    \/ \E r \in Runs : Turn(r) /\ ProcessDocument(r)
    \/ \E r \in Runs : Turn(r) /\ SortDictKeys(r)

SpecTwo == InitOn(LocBatches) /\ [][NextTwo]_vars

\* Two builds running at the same time, each on a segment of its own, both
\* called with the same batch object: their steps interleave in any order.
NextShared ==
    \/ \E r \in Runs : Call(r)
    \/ \E r \in Runs : InitializeDictOn(r, 1)
    \/ \E r \in Runs : ProcessDocumentOn(r, 1)
    \/ \E r \in Runs : SortDictKeysOn(r, 1)

SpecShared == InitOn(PlainBatches) /\ [][NextShared]_vars

\* The documents a caller may put in the place of an analysis result.
ChangedDocs ==
    {Result(<<>>, <<Regular("body", "TextField", FALSE, FALSE, <<>>, <<>>,
                            MapSet(MapSet(EmptyMap, Cat, TokenFreq(1, <<>>)),
                                   Dog, TokenFreq(2, <<>>)))>>),
     Result(<<>>, <<Regular("title", "TextField", FALSE, FALSE, <<>>, <<>>,
                            MapSet(EmptyMap, Dog, TokenFreq(1, <<>>)))>>),
     Result(<<Composite("_all", MapSet(EmptyMap, Dog, TokenFreq(1, <<>>)))>>, <<>>)}

\* results holds pointers: between initializeDict and the assembly of a
\* document its analysis result can be changed by whoever holds the batch.
\* One change per build.
ChangeResult(r) ==
    /\ pc[r] = "docs"
    /\ results[r] = batch
    /\ \E i \in (next[r] + 1)..Len(results[r]) : \E d \in ChangedDocs :
           /\ d # results[r][i]
           /\ results' = [results EXCEPT ![r][i] = d]
    /\ UNCHANGED <<batch, seg, pc, next>>

\* One build of a batch that can change between the two passes.
NextChanged ==
    \/ Build(1)
    \/ ChangeResult(1)

SpecChanged == InitOn(PlainBatches) /\ [][NextChanged]_vars

(***************************************************************************)
(* What a batch holds, read off the analysis results                       *)
(***************************************************************************)

\* The field occurrences of a document in the order both passes walk them:
\* the composite fields, then the regular fields.
Occurrences(result) ==
    LET cs == result.Document.CompositeFields
        fs == result.Document.Fields
    IN  [k \in 1..(Len(cs) + Len(fs)) |->
            IF k <= Len(cs)
            THEN [name |-> cs[k].name, tf |-> cs[k].tf, l |-> cs[k].l]
            ELSE [name |-> fs[k - Len(cs)].name,
                  tf |-> result.Analyzed[k - Len(cs)],
                  l |-> result.Length[k - Len(cs)]]]

\* The occurrences of a document that carry the field name.
OccurrencesOf(result, name) ==
    {k \in DOMAIN Occurrences(result) : Occurrences(result)[k].name = name}

\* Whether term t is a key of a term-frequency map of field `name` of the document.
HasTerm(result, name, t) ==
    \E k \in OccurrencesOf(result, name) : t \in DOMAIN Occurrences(result)[k].tf

\* The sum of v[k] over the indices k in K.
RECURSIVE SumOver(_, _)
SumOver(v, K) ==
    IF K = {} THEN 0
    ELSE LET k == CHOOSE x \in K : TRUE
         IN  v[k] + SumOver(v, K \ {k})

\* The occurrence count of t in field `name` of the document, over all the
\* occurrences of the field.
TotalCount(result, name, t) ==
    LET occ == Occurrences(result)
    IN  SumOver([k \in DOMAIN occ |-> Lookup(occ[k].tf, t, TokenFreq(0, <<>>)).frequency],
                OccurrencesOf(result, name))

\* The token length of field `name` of the document, over all its occurrences.
TotalLength(result, name) ==
    LET occ == Occurrences(result)
    IN  SumOver([k \in DOMAIN occ |-> occ[k].l], OccurrencesOf(result, name))

\* The field names and the terms of a batch.
FieldNames(b) ==
    UNION {{Occurrences(b[i])[k].name : k \in DOMAIN Occurrences(b[i])} : i \in DOMAIN b}
TermsOf(b) ==
    UNION {UNION {DOMAIN Occurrences(b[i])[k].tf : k \in DOMAIN Occurrences(b[i])} :
              i \in DOMAIN b}

\* The (field name, term) pairs of a batch.
PairsOf(b) ==
    {p \in FieldNames(b) \X TermsOf(b) : \E i \in DOMAIN b : HasTerm(b[i], p[1], p[2])}

\* The position of d among the members of a set of document numbers (1-based).
Rank(set, d) == Cardinality({x \in set : x <= d})

\* The 0-based posting index of term t of field `name` in segment s.
Pid(s, name, t) == s.Dicts[s.FieldsMap[name]][t] - 1

\* The documents build r has assembled.
Assembled(r) == IF pc[r] \in {"docs", "done"} THEN 0..(next[r] - 1) ELSE {}

(***************************************************************************)
(* The claims                                                              *)
(***************************************************************************)

\* The sizes of the membership set, the frequencies and the norms of every
\* posting agree.
CountsAligned(s) ==
    \A pid \in DOMAIN s.Postings :
        /\ Cardinality(s.Postings[pid]) = Len(s.Freqs[pid])
        /\ Len(s.Norms[pid]) = Len(s.Freqs[pid])

\* From s to s2 every posting is left alone or gains one document, larger
\* than all its members, together with one entry at the end of its
\* frequencies and one at the end of its norms.
AppendsForLargest(s, s2) ==
    \A pid \in DOMAIN s.Postings :
        \/ /\ s2.Postings[pid] = s.Postings[pid]
           /\ s2.Freqs[pid] = s.Freqs[pid]
           /\ s2.Norms[pid] = s.Norms[pid]
        \/ \E d \in s2.Postings[pid] \ s.Postings[pid] :
               /\ s2.Postings[pid] = s.Postings[pid] \cup {d}
               /\ \A x \in s.Postings[pid] : x < d
               /\ Len(s2.Freqs[pid]) = Len(s.Freqs[pid]) + 1
               /\ SubSeq(s2.Freqs[pid], 1, Len(s.Freqs[pid])) = s.Freqs[pid]
               /\ Len(s2.Norms[pid]) = Len(s.Norms[pid]) + 1
               /\ SubSeq(s2.Norms[pid], 1, Len(s.Norms[pid])) = s.Norms[pid]

\* C1 (alignment): in every state of a build each posting has as many
\* frequencies and norms as members, and a processDocument call gives a
\* posting at most one new member, larger than the members it has, with its
\* frequency and norm appended last; so the K-th smallest member is the
\* document that appended the K-th entries.
C1_Alignment ==
    [][\A r \in Runs :
           /\ CountsAligned(seg'[r])
           /\ pc[r] = "docs" => AppendsForLargest(seg[r], seg'[r])]_vars

\* A posting of a finished build with two documents of different frequency.
C1_Witness ==
    \E r \in Runs : \E pid \in DOMAIN seg[r].Postings :
        /\ pc[r] = "done"
        /\ Cardinality(seg[r].Postings[pid]) = 2
        /\ seg[r].Freqs[pid][1] # seg[r].Freqs[pid][2]

\* The documents of the batch that hold term t in a field whose name has
\* the 1-based registry position f in segment s.
DocsHolding(s, f, t) ==
    {d \in 0..(Len(batch) - 1) :
        \E name \in DOMAIN s.FieldsMap :
            s.FieldsMap[name] = f /\ HasTerm(batch[d + 1], name, t)}

\* C2 (membership): after a build every field name of the batch is
\* registered, a term is a key of a field's dictionary exactly when some
\* document holds it in that field, and its posting's members are exactly
\* the documents that hold it there.
C2_Membership ==
    \A r \in Runs : pc[r] = "done" =>
        /\ FieldNames(batch) \subseteq DOMAIN seg[r].FieldsMap
        /\ \A f \in DOMAIN seg[r].Dicts :
               \A t \in TermsOf(batch) \cup DOMAIN seg[r].Dicts[f] :
                   /\ t \in DOMAIN seg[r].Dicts[f] <=> DocsHolding(seg[r], f, t) # {}
                   /\ t \in DOMAIN seg[r].Dicts[f] =>
                          /\ seg[r].Dicts[f][t] \in DOMAIN seg[r].Postings
                          /\ seg[r].Postings[seg[r].Dicts[f][t]] = DocsHolding(seg[r], f, t)

\* A finished build with a term held by document 1 and not by document 0,
\* and another held by both.
C2_Witness ==
    \E r \in Runs :
        /\ pc[r] = "done"
        /\ \E pid \in DOMAIN seg[r].Postings : seg[r].Postings[pid] = {1}
        /\ \E pid \in DOMAIN seg[r].Postings : seg[r].Postings[pid] = {0, 1}

\* The (field, term) pairs of the dictionaries of s, fields by 1-based position.
DictPairs(s) == UNION {{<<f, t>> : t \in DOMAIN s.Dicts[f]} : f \in DOMAIN s.Dicts}

\* The dictionaries of s hold the ordinals 1..P once each and every
\* postings array has P slots, P the number of pairs of the batch.
Allocated(s) ==
    LET P == Cardinality(PairsOf(batch))
    IN  /\ {s.Dicts[p[1]][p[2]] : p \in DictPairs(s)} = 1..P
        /\ Cardinality(DictPairs(s)) = P
        /\ Len(s.Postings) = P /\ Len(s.PostingsLocs) = P
        /\ Len(s.Freqs) = P /\ Len(s.Norms) = P
        /\ Len(s.Locfields) = P /\ Len(s.Locstarts) = P /\ Len(s.Locends) = P
        /\ Len(s.Locpos) = P /\ Len(s.Locarraypos) = P

\* From s to s2 no dictionary of s changes, a new dictionary is empty, and
\* the postings arrays keep their number of slots.
OrdinalsKept(s, s2) ==
    /\ Len(s2.Dicts) >= Len(s.Dicts)
    /\ \A f \in DOMAIN s2.Dicts :
           s2.Dicts[f] = IF f \in DOMAIN s.Dicts THEN s.Dicts[f] ELSE EmptyMap
    /\ Len(s2.Postings) = Len(s.Postings)
    /\ Len(s2.PostingsLocs) = Len(s.PostingsLocs)
    /\ Len(s2.Freqs) = Len(s.Freqs)
    /\ Len(s2.Norms) = Len(s.Norms)
    /\ Len(s2.Locfields) = Len(s.Locfields)
    /\ Len(s2.Locstarts) = Len(s.Locstarts)
    /\ Len(s2.Locends) = Len(s.Locends)
    /\ Len(s2.Locpos) = Len(s.Locpos)
    /\ Len(s2.Locarraypos) = Len(s.Locarraypos)

\* C5 (ordinal allocation): once initializeDict has returned, the ordinals of
\* all dictionaries are exactly 1..P, one pair each, with P the number of
\* distinct (field, term) pairs of the batch, and the nine postings arrays
\* have P slots; no later step adds or changes an ordinal or a slot count.
C5_OrdinalAllocation ==
    [][\A r \in Runs :
           /\ pc'[r] \in {"docs", "done"} => Allocated(seg'[r])
           /\ pc[r] = "docs" => OrdinalsKept(seg[r], seg'[r])]_vars

\* A finished build with three posting slots in two fields, every slot
\* used, and a field registered during the assembly.
C5_Witness ==
    \E r \in Runs :
        /\ pc[r] = "done"
        /\ Len(seg[r].Postings) = 3
        /\ Len(seg[r].Dicts) > Cardinality(FieldNames(batch) \cup {"_id"})
        /\ \E f, g \in DOMAIN seg[r].Dicts : f # g /\ seg[r].Dicts[f] # EmptyMap
                                                  /\ seg[r].Dicts[g] # EmptyMap
        /\ \A pid \in DOMAIN seg[r].Postings : seg[r].Postings[pid] # {}

\* a comes before b in byte order: at the first position where they differ
\* a has ended or has the smaller byte.
ByteOrderBefore(a, b) ==
    \E i \in 1..Len(b) :
        /\ \A j \in 1..(i - 1) : j <= Len(a) /\ a[j] = b[j]
        /\ i > Len(a) \/ a[i] < b[i]

\* The term lists of s are ascending without duplicate, hold the keys of
\* their dictionaries, and sorting them again changes nothing.
TermListsSorted(s) ==
    \A f \in DOMAIN s.DictKeys :
        /\ \A i \in 1..(Len(s.DictKeys[f]) - 1) :
               ByteOrderBefore(s.DictKeys[f][i], s.DictKeys[f][i + 1])
        /\ {s.DictKeys[f][i] : i \in DOMAIN s.DictKeys[f]} = DOMAIN s.Dicts[f]
        /\ SortStrings(s.DictKeys[f]) = s.DictKeys[f]

\* C6 (term list ordering): after a build every field's term list is in
\* strictly ascending byte order, holds exactly the keys of the field's
\* dictionary, and is unchanged by another sort; the sort step leaves
\* Dicts as it was.
C6_TermListOrdering ==
    [][\A r \in Runs :
           /\ pc'[r] = "done" => TermListsSorted(seg'[r])
           /\ pc[r] = "docs" /\ pc'[r] = "done" =>
                  /\ seg'[r].Dicts = seg[r].Dicts
                  /\ Len(seg'[r].DictKeys) = Len(seg[r].DictKeys)]_vars

\* A finished build whose field got "dog" before "cat" and lists "cat" first.
C6_Witness ==
    \E r \in Runs : \E f \in DOMAIN seg[r].Dicts :
        /\ pc[r] = "done"
        /\ DOMAIN seg[r].Dicts[f] = {Cat, Dog}
        /\ seg[r].Dicts[f][Dog] < seg[r].Dicts[f][Cat]
        /\ seg[r].DictKeys[f] = <<Cat, Dog>>

\* C7 (norm): for every assembled document and every term it holds in a
\* field, the norm recorded for the document in the term's posting is
\* 1/sqrt(L), L the sum of the token lengths of all the document's
\* composite and regular fields of that name.
C7_Norm ==
    \A r \in Runs : \A d \in Assembled(r) :
        \A name \in FieldNames(batch) : \A t \in TermsOf(batch) :
            HasTerm(batch[d + 1], name, t) =>
                LET pid == Pid(seg[r], name, t) + 1
                    k == Rank(seg[r].Postings[pid], d)
                IN  /\ d \in seg[r].Postings[pid]
                    /\ k <= Len(seg[r].Norms[pid])
                    /\ seg[r].Norms[pid][k] = InvSqrt(TotalLength(batch[d + 1], name))

\* A finished build of a document with two occurrences of one field, each
\* with tokens, and a term in it.
C7_Witness ==
    \E r \in Runs : \E d \in Assembled(r) : \E name \in FieldNames(batch) :
        /\ pc[r] = "done"
        /\ Cardinality(OccurrencesOf(batch[d + 1], name)) = 2
        /\ \A k \in OccurrencesOf(batch[d + 1], name) : Occurrences(batch[d + 1])[k].l > 0
        /\ \E t \in TermsOf(batch) : HasTerm(batch[d + 1], name, t)

\* The step of build r is a processDocument call.
IsProcessDocument(r) == pc[r] = "docs" /\ next'[r] = next[r] + 1

\* C10 (document numbering): the processDocument call for the i-th result
\* (from 0) adds one entry to Stored, StoredTypes and StoredPos, the i+1-st,
\* and the only document number it adds to any posting is i, which it adds
\* for every term the document holds; after the build the three have one
\* entry per document of the batch.
C10_DocumentNumbering ==
    [][\A r \in Runs :
           /\ IsProcessDocument(r) /\ pc'[r] = "docs" =>
                  /\ Len(seg[r].Stored) = next[r]
                  /\ Len(seg'[r].Stored) = next[r] + 1
                  /\ Len(seg'[r].StoredTypes) = next[r] + 1
                  /\ Len(seg'[r].StoredPos) = next[r] + 1
                  /\ \A pid \in DOMAIN seg[r].Postings :
                         seg'[r].Postings[pid] \ seg[r].Postings[pid] \subseteq {next[r]}
                  /\ \A p \in PairsOf(batch) :
                         HasTerm(batch[next[r] + 1], p[1], p[2]) =>
                             next[r] \in seg'[r].Postings[Pid(seg'[r], p[1], p[2]) + 1]
           /\ pc'[r] = "done" =>
                  /\ Len(seg'[r].Stored) = Len(batch)
                  /\ Len(seg'[r].StoredTypes) = Len(batch)
                  /\ Len(seg'[r].StoredPos) = Len(batch)]_vars

\* A finished build of a batch whose document 0 has no field and whose
\* document 1 has a term: the term's posting holds 1 alone.
C10_Witness ==
    \E r \in Runs :
        /\ pc[r] = "done"
        /\ Len(batch) = 2
        /\ Occurrences(batch[1]) = <<>>
        /\ Len(seg[r].Stored) = 2
        /\ \E pid \in DOMAIN seg[r].Postings : seg[r].Postings[pid] = {1}

\* The occurrences of all documents of a batch, from the i-th on, in scan order.
RECURSIVE ScanFrom(_, _)
ScanFrom(b, i) ==
    IF i > Len(b) THEN <<>> ELSE Occurrences(b[i]) \o ScanFrom(b, i + 1)

\* A sequence without the repetitions of its elements.
RECURSIVE FirstSights(_)
FirstSights(q) ==
    IF q = <<>> THEN <<>>
    ELSE LET front == FirstSights(SubSeq(q, 1, Len(q) - 1))
             x == q[Len(q)]
         IN  IF \E k \in DOMAIN front : front[k] = x THEN front ELSE Append(front, x)

\* The names getOrDefineField is called with up to the end of initializeDict.
NamesScanned(b) ==
    <<"_id">> \o [k \in DOMAIN ScanFrom(b, 1) |-> ScanFrom(b, 1)[k].name]

\* The names a document's locations give as their field.
OverrideNames(result) ==
    LET occ == Occurrences(result)
    IN  UNION {UNION {{occ[k].tf[t].Locations[j].Field :
                          j \in DOMAIN occ[k].tf[t].Locations} : t \in DOMAIN occ[k].tf} :
                  k \in DOMAIN occ} \ {""}

\* The registry of s: ids dense from 0 in registration order, "_id" first,
\* and getOrDefineField on a registered name returns its id and leaves s alone.
RegistryDense(s) ==
    /\ Len(s.FieldsInv) >= 1
    /\ s.FieldsInv[1] = "_id"
    /\ DOMAIN s.FieldsMap = {s.FieldsInv[k] : k \in DOMAIN s.FieldsInv}
    /\ \A k \in DOMAIN s.FieldsInv : s.FieldsMap[s.FieldsInv[k]] = k
    /\ \A name \in DOMAIN s.FieldsMap :
           getOrDefineField(s, name) = [s |-> s, id |-> s.FieldsMap[name] - 1]

\* From s to s2 the registered names keep their ids and the new names, each
\* once, are among `names`.
RegistryExtended(s, s2, names) ==
    /\ Len(s2.FieldsInv) >= Len(s.FieldsInv)
    /\ SubSeq(s2.FieldsInv, 1, Len(s.FieldsInv)) = s.FieldsInv
    /\ \A k \in (Len(s.FieldsInv) + 1)..Len(s2.FieldsInv) :
           s2.FieldsInv[k] \in names \ DOMAIN s.FieldsMap

\* C3 (field ids): once a build has begun "_id" has id 0, the id of a name
\* is its 0-based place among the distinct names in the order of their first
\* getOrDefineField call (the names of the scan of initializeDict, then the
\* names processDocument meets), and getOrDefineField on a registered name
\* returns its id and changes nothing.
C3_FieldIds ==
    [][\A r \in Runs :
           /\ pc'[r] # "idle" => RegistryDense(seg'[r])
           /\ pc[r] = "dict" => seg'[r].FieldsInv = FirstSights(NamesScanned(batch))
           /\ IsProcessDocument(r) =>
                  /\ RegistryExtended(seg[r], seg'[r], OverrideNames(batch[next[r] + 1]))
                  /\ pc'[r] = "docs" =>
                         OverrideNames(batch[next[r] + 1]) \subseteq DOMAIN seg'[r].FieldsMap
           /\ pc[r] = "docs" /\ pc'[r] = "done" =>
                  seg'[r].FieldsInv = seg[r].FieldsInv]_vars

\* A finished build of a batch without an "_id" field in which a field was
\* registered during the assembly.
C3_Witness ==
    \E r \in Runs :
        /\ pc[r] = "done"
        /\ "_id" \notin FieldNames(batch)
        /\ seg[r].FieldsMap["_id"] = 1
        /\ FieldNames(batch) # {}
        /\ Len(seg[r].FieldsInv) > Cardinality(FieldNames(batch)) + 1

\* The place in the scan of initializeDict where a pair is first seen.
FirstSeen(b, p) ==
    LET scan == ScanFrom(b, 1)
    IN  CHOOSE k \in DOMAIN scan :
            /\ scan[k].name = p[1] /\ p[2] \in DOMAIN scan[k].tf
            /\ \A j \in 1..(k - 1) : ~(scan[j].name = p[1] /\ p[2] \in DOMAIN scan[j].tf)

\* C4 as claimed (determinism): two builds of the same batch end with the
\* same field ids and the same posting ordinals.
C4_SameIdsAndOrdinals ==
    (pc[1] = "done" /\ pc[2] = "done") =>
        /\ seg[1].FieldsMap = seg[2].FieldsMap
        /\ seg[1].Dicts = seg[2].Dicts

\* C4 as amended: two builds of the same batch register the same names, give
\* "_id" and every name of a composite or regular field of the batch the
\* same id, give such a field's dictionary the same terms, allocate the same
\* number of ordinals, and order the ordinals of two pairs first seen in
\* different term-frequency maps of the scan alike (by first sight).
C4_SameUpToMapOrder ==
    (pc[1] = "done" /\ pc[2] = "done") =>
        /\ DOMAIN seg[1].FieldsMap = DOMAIN seg[2].FieldsMap
        /\ \A name \in FieldNames(batch) \cup {"_id"} :
               /\ seg[1].FieldsMap[name] = seg[2].FieldsMap[name]
               /\ DOMAIN seg[1].Dicts[seg[1].FieldsMap[name]]
                      = DOMAIN seg[2].Dicts[seg[2].FieldsMap[name]]
        /\ Len(seg[1].Postings) = Len(seg[2].Postings)
        /\ \A p, q \in PairsOf(batch) :
               FirstSeen(batch, p) < FirstSeen(batch, q) =>
                   \A r \in Runs : Pid(seg[r], p[1], p[2]) < Pid(seg[r], q[1], q[2])

\* Two finished builds that differ in a posting ordinal and in a field id.
C4_Witness ==
    /\ pc[1] = "done" /\ pc[2] = "done"
    /\ seg[1].Dicts # seg[2].Dicts
    /\ seg[1].FieldsMap # seg[2].FieldsMap

\* The regular fields of a document, in sequence, that are stored under the
\* name `name`.
RECURSIVE StoredFields(_, _, _)
StoredFields(result, name, k) ==
    IF k > Len(result.Document.Fields) THEN <<>>
    ELSE LET field == result.Document.Fields[k]
         IN  (IF field.name = name /\ field.stored THEN <<field>> ELSE <<>>)
                 \o StoredFields(result, name, k + 1)

\* The type tag of a field kind.
TypeTag(kind) ==
    LET known == [TextField |-> "t", NumericField |-> "n", DateTimeField |-> "d",
                  BooleanField |-> "b", GeoPointField |-> "g", CompositeField |-> "c"]
    IN  IF kind \in DOMAIN known THEN known[kind] ELSE "x"

\* C8 (stored values): for every assembled document d and registered field,
\* Stored[d], StoredTypes[d] and StoredPos[d] hold under the field's id the
\* values, type tags and array positions of d's stored regular fields of that
\* name, in sequence, and no entry when d has no such field; this holds in
\* every later state too.
C8_StoredValues ==
    \A r \in Runs : \A d \in Assembled(r) :
        /\ d + 1 \in DOMAIN seg[r].Stored
        /\ DOMAIN seg[r].StoredTypes[d + 1] = DOMAIN seg[r].Stored[d + 1]
        /\ DOMAIN seg[r].StoredPos[d + 1] = DOMAIN seg[r].Stored[d + 1]
        /\ \A name \in DOMAIN seg[r].FieldsMap :
               LET f == seg[r].FieldsMap[name] - 1
                   fields == StoredFields(batch[d + 1], name, 1)
               IN  IF fields = <<>>
                   THEN f \notin DOMAIN seg[r].Stored[d + 1]
                   ELSE /\ f \in DOMAIN seg[r].Stored[d + 1]
                        /\ seg[r].Stored[d + 1][f] =
                               [i \in DOMAIN fields |-> fields[i].value]
                        /\ seg[r].StoredTypes[d + 1][f] =
                               [i \in DOMAIN fields |-> TypeTag(fields[i].kind)]
                        /\ seg[r].StoredPos[d + 1][f] =
                               [i \in DOMAIN fields |-> fields[i].arrayPositions]
        /\ \A f \in DOMAIN seg[r].Stored[d + 1] :
               \E name \in DOMAIN seg[r].FieldsMap : seg[r].FieldsMap[name] = f + 1

\* A finished build whose document 0 has two stored values of different
\* type under one field, still there after document 1 was assembled.
C8_Witness ==
    \E r \in Runs :
        /\ pc[r] = "done"
        /\ Len(batch) = 2
        /\ \E f \in DOMAIN seg[r].Stored[1] :
               /\ Len(seg[r].Stored[1][f]) = 2
               /\ seg[r].StoredTypes[1][f][1] # seg[r].StoredTypes[1][f][2]
               /\ seg[r].Stored[1][f][1] # seg[r].Stored[1][f][2]
        /\ seg[r].Stored[2] = EmptyMap

\* The locations of t in field `name` of a document, over the occurrences
\* of the field from the k-th on, in processing order.
RECURSIVE AllLocations(_, _, _, _)
AllLocations(result, name, t, k) ==
    LET occ == Occurrences(result)
    IN  IF k > Len(occ) THEN <<>>
        ELSE (IF occ[k].name = name /\ t \in DOMAIN occ[k].tf
              THEN occ[k].tf[t].Locations ELSE <<>>)
                 \o AllLocations(result, name, t, k + 1)

\* The number of locations of t in field `name` over the documents below d.
LocationsBelow(name, t, d) ==
    SumOver([x \in 0..(d - 1) |-> Len(AllLocations(batch[x + 1], name, t, 1))],
            0..(d - 1))

RECURSIVE AloneWalk(_, _)
AloneWalk(xs, i) ==
    IF \A x \in xs : x.panic \/ i > Len(x.rs)
    THEN xs
    ELSE AloneWalk(
             UNION {IF x.panic \/ i > Len(x.rs)
                    THEN {x}
                    ELSE {[s |-> out.s, rs |-> [x.rs EXCEPT ![i] = out.result],
                           panic |-> out.panic] : out \in processDocument(x.s, x.rs[i])} :
                       x \in xs},
             i + 1)

\* The segments NewFromAnalyzedDocs can return for the batch b when nothing
\* else runs.
Alone(b) ==
    LET starts == {[s |-> s, rs |-> b, panic |-> FALSE] :
                      s \in initializeDict(getOrDefineField(New, "_id").s, b)}
    IN  {sortDictKeys(x.s) : x \in {y \in AloneWalk(starts, 1) : ~y.panic}}

\* C11 (concurrent builds): of two builds on separate segments, called with
\* the same batch and interleaved in any way, each returns a segment it can
\* return for that batch when it runs alone.
C11_SameAsAlone ==
    \A r \in Runs : pc[r] = "done" => seg[r] \in Alone(batch)

\* The (field name, term) pairs a document holds.
PairsOfDoc(result) ==
    LET occ == Occurrences(result)
    IN  UNION {{<<occ[k].name, t>> : t \in DOMAIN occ[k].tf} : k \in DOMAIN occ}

\* The pair has an entry in the dictionary of its field in s.
HasOrdinal(s, p) ==
    /\ p[1] \in DOMAIN s.FieldsMap
    /\ p[2] \in DOMAIN s.Dicts[s.FieldsMap[p[1]]]

\* The nine postings arrays of s and s2 agree on slot pid.
SlotUntouched(s, s2, pid) ==
    /\ s2.Postings[pid] = s.Postings[pid]
    /\ s2.PostingsLocs[pid] = s.PostingsLocs[pid]
    /\ s2.Freqs[pid] = s.Freqs[pid]
    /\ s2.Norms[pid] = s.Norms[pid]
    /\ s2.Locfields[pid] = s.Locfields[pid]
    /\ s2.Locstarts[pid] = s.Locstarts[pid]
    /\ s2.Locends[pid] = s.Locends[pid]
    /\ s2.Locpos[pid] = s.Locpos[pid]
    /\ s2.Locarraypos[pid] = s.Locarraypos[pid]

\* C12 (missing ordinal): a processDocument call panics exactly when the
\* document it assembles holds a pair without an entry in its field's
\* dictionary; the panicking call creates no ordinal, leaves every slot that
\* is not the slot of a pair the document holds as it was, gives a slot of
\* such a pair at most the one entry of this document, and the build makes
\* no further step: it never returns a segment.
C12_MissingOrdinalStops ==
    [][\A r \in Runs :
           /\ IsProcessDocument(r) =>
                  LET doc == results[r][next[r] + 1]
                      missing == {p \in PairsOfDoc(doc) : ~HasOrdinal(seg[r], p)}
                      slots == {Pid(seg[r], p[1], p[2]) + 1 :
                                   p \in PairsOfDoc(doc) \ missing}
                  IN  /\ pc'[r] = "panic" <=> missing # {}
                      /\ pc'[r] = "panic" =>
                             /\ OrdinalsKept(seg[r], seg'[r])
                             /\ \A pid \in DOMAIN seg[r].Postings :
                                    IF pid \in slots
                                    THEN /\ seg'[r].Postings[pid] \ seg[r].Postings[pid]
                                                \subseteq {next[r]}
                                         /\ Len(seg'[r].Freqs[pid])
                                                <= Len(seg[r].Freqs[pid]) + 1
                                         /\ Len(seg'[r].Norms[pid])
                                                <= Len(seg[r].Norms[pid]) + 1
                                    ELSE SlotUntouched(seg[r], seg'[r], pid)
           /\ pc[r] = "panic" => pc'[r] = "panic" /\ seg'[r] = seg[r]]_vars

\* A build stopped by a pair without ordinal after it had entered the
\* document under another pair, with slots of other pairs allocated.
C12_Witness ==
    \E r \in Runs :
        /\ pc[r] = "panic"
        /\ Len(seg[r].Postings) >= 2
        /\ \E pid \in DOMAIN seg[r].Postings : (next[r] - 1) \in seg[r].Postings[pid]
        /\ \E p \in PairsOfDoc(results[r][next[r]]) : ~HasOrdinal(seg[r], p)

\* The four registry structures of s have one size, FieldsMap is injective,
\* and every registered name leads through its id back to itself, to a
\* dictionary and to a term list.
RegistryConsistent(s) ==
    /\ Cardinality(DOMAIN s.FieldsMap) = Len(s.FieldsInv)
    /\ Len(s.Dicts) = Len(s.FieldsInv)
    /\ Len(s.DictKeys) = Len(s.FieldsInv)
    /\ \A a, b \in DOMAIN s.FieldsMap : a # b => s.FieldsMap[a] # s.FieldsMap[b]
    /\ \A n \in DOMAIN s.FieldsMap :
           LET k == getOrDefineField(s, n).id
           IN  /\ k + 1 \in DOMAIN s.FieldsInv /\ s.FieldsInv[k + 1] = n
               /\ k + 1 \in DOMAIN s.Dicts
               /\ k + 1 \in DOMAIN s.DictKeys

\* The names of the model: those of the batches, the override names, and a
\* name nothing carries.
AllNames == {"_id", "_all", "body", "title", "extra", "more", "other"}

\* C13 (registry consistency): in every state of a build the registry is
\* consistent, and stays so across a getOrDefineField call with any name,
\* whose returned id leads to that name; once initializeDict has returned, a
\* registered field no document holds a term in (the identifier, a regular
\* field without tokens, a field named by a location only) has an empty
\* dictionary and an empty term list.
C13_RegistryConsistency ==
    \A r \in Runs :
        /\ RegistryConsistent(seg[r])
        /\ \A n \in AllNames :
               LET g == getOrDefineField(seg[r], n)
               IN  /\ RegistryConsistent(g.s)
                   /\ g.s.FieldsInv[g.id + 1] = n
                   /\ n \notin DOMAIN seg[r].FieldsMap =>
                          /\ g.id = Len(seg[r].FieldsInv)
                          /\ g.s.Dicts[g.id + 1] = EmptyMap
                          /\ g.s.DictKeys[g.id + 1] = <<>>
        /\ pc[r] \in {"docs", "done"} =>
               \A n \in DOMAIN seg[r].FieldsMap :
                   (\A i \in DOMAIN batch : \A t \in TermsOf(batch) : ~HasTerm(batch[i], n, t))
                       => /\ seg[r].Dicts[seg[r].FieldsMap[n]] = EmptyMap
                          /\ seg[r].DictKeys[seg[r].FieldsMap[n]] = <<>>

\* A finished build with a regular field without tokens, a field registered
\* through a location during the assembly, and the identifier, all three
\* with an empty dictionary, beside a field with a term.
C13_Witness ==
    \E r \in Runs :
        /\ pc[r] = "done"
        /\ {"_id", "body", "extra", "_all"} \subseteq DOMAIN seg[r].FieldsMap
        /\ "body" \in FieldNames(batch)
        /\ seg[r].FieldsMap["extra"] > seg[r].FieldsMap["body"]
        /\ \A n \in {"_id", "body", "extra"} : seg[r].Dicts[seg[r].FieldsMap[n]] = EmptyMap
        /\ seg[r].Dicts[seg[r].FieldsMap["_all"]] # EmptyMap

\* The pairs of the batch first seen before the place k of the scan, and up
\* to it.
SeenBefore(k) == {q \in PairsOf(batch) : FirstSeen(batch, q) < k}
SeenUpTo(k) == {q \in PairsOf(batch) : FirstSeen(batch, q) <= k}

\* C14 (order of first appearance): with the scan of initializeDict going
\* through the documents in batch order and through a document's composite
\* fields before its regular fields, the ordinal of a pair lies after those
\* of all pairs first seen in an earlier field of the scan and among those
\* of the pairs first seen in the same field; no two pairs share an ordinal;
\* a field's term list has one entry per term of its dictionary, and until
\* the final sort lists the terms by ascending ordinal.
C14_FirstAppearance ==
    \A r \in Runs : pc[r] \in {"docs", "done"} =>
        LET s == seg[r]
        IN  /\ \A p \in PairsOf(batch) :
                   /\ HasOrdinal(s, p)
                   /\ Pid(s, p[1], p[2]) + 1 \in
                          (Cardinality(SeenBefore(FirstSeen(batch, p))) + 1)
                              ..Cardinality(SeenUpTo(FirstSeen(batch, p)))
            /\ \A p, q \in PairsOf(batch) :
                   p # q => Pid(s, p[1], p[2]) # Pid(s, q[1], q[2])
            /\ \A f \in DOMAIN s.DictKeys :
                   /\ Len(s.DictKeys[f]) = Cardinality(DOMAIN s.Dicts[f])
                   /\ {s.DictKeys[f][i] : i \in DOMAIN s.DictKeys[f]} = DOMAIN s.Dicts[f]
                   /\ pc[r] = "docs" =>
                          \A i \in 1..(Len(s.DictKeys[f]) - 1) :
                              s.Dicts[f][s.DictKeys[f][i]] < s.Dicts[f][s.DictKeys[f][i + 1]]

\* The dictionaries of a document with a composite field "body" holding
\* "dog" and a regular field "body" holding "cat" and "dog": "dog", first
\* seen in the composite field, has ordinal 1 and, seen again in the regular
\* field, no second entry; "cat" has ordinal 2.
C14_Witness ==
    \E r \in Runs :
        /\ pc[r] = "docs"
        /\ Len(batch) >= 1
        /\ Len(batch[1].Document.CompositeFields) = 1
        /\ Len(batch[1].Document.Fields) = 1
        /\ batch[1].Document.CompositeFields[1].name = "body"
        /\ batch[1].Document.Fields[1].name = "body"
        /\ DOMAIN batch[1].Analyzed[1] = {Cat, Dog}
        /\ seg[r].Dicts[seg[r].FieldsMap["body"]] = MapSet(MapSet(EmptyMap, Dog, 1), Cat, 2)
        /\ seg[r].DictKeys[seg[r].FieldsMap["body"]] = <<Dog, Cat>>
        /\ Len(seg[r].Postings) = 2

\* The (field id, term) pairs processDocument walks for a result on segment
\* s: the entries of the collated docMap, merged maps included.
Walked(s, result) ==
    LET ps == DocCollate(s, result)
    IN  UNION {{<<f, t>> : t \in DOMAIN Deref(ps.result, ps.docMap[f])} :
                  f \in DOMAIN ps.docMap}

\* C15 (every assembled pair has an ordinal): when the result a
\* processDocument call assembles is the one initializeDict scanned, every
\* pair of its collated map has an entry of its field's dictionary, the
\* entry is one of 1..P, the index ordinal-1 is one of 0..P-1, and the call
\* does not panic.
C15_AssembledPairsHaveOrdinals ==
    [][\A r \in Runs :
           (IsProcessDocument(r) /\ results[r][next[r] + 1] = batch[next[r] + 1]) =>
               LET P == Len(seg[r].Postings)
                   after == DocCollate(seg[r], results[r][next[r] + 1]).s
               IN  /\ \A w \in Walked(seg[r], results[r][next[r] + 1]) :
                          /\ w[2] \in DOMAIN after.Dicts[w[1] + 1]
                          /\ after.Dicts[w[1] + 1][w[2]] \in 1..P
                          /\ Uint64Dec(after.Dicts[w[1] + 1][w[2]]) \in 0..(P - 1)
                   /\ pc'[r] = "docs"]_vars

\* An assembled document with two fields "body", "cat" only in the second:
\* "cat" entered the collated map by the merge, and document 0 is in its
\* posting.
C15_Witness ==
    \E r \in Runs :
        /\ pc[r] = "docs" /\ next[r] >= 1
        /\ Len(batch[1].Document.Fields) = 2
        /\ \A k \in {1, 2} : batch[1].Document.Fields[k].name = "body"
        /\ Cat \notin DOMAIN batch[1].Analyzed[1]
        /\ Cat \in DOMAIN batch[1].Analyzed[2]
        /\ Cat \in DOMAIN results[r][1].Analyzed[1]
        /\ 0 \in seg[r].Postings[Pid(seg[r], "body", Cat) + 1]

\* Segment s holds nothing of any document: no document number, empty
\* membership sets, empty sequences in every posting slot, no flag.
NoDocumentData(s) ==
    /\ s.Stored = <<>> /\ s.StoredTypes = <<>> /\ s.StoredPos = <<>>
    /\ s.DocValueFields = EmptyMap
    /\ \A pid \in DOMAIN s.Postings :
           /\ s.Postings[pid] = {} /\ s.PostingsLocs[pid] = {}
           /\ s.Freqs[pid] = <<>> /\ s.Norms[pid] = <<>>
           /\ s.Locfields[pid] = <<>> /\ s.Locstarts[pid] = <<>>
           /\ s.Locends[pid] = <<>> /\ s.Locpos[pid] = <<>>
           /\ s.Locarraypos[pid] = <<>>

\* C16 (the dictionary pass writes no document data): the initializeDict
\* step leaves Stored, StoredTypes, StoredPos and DocValueFields as they
\* were, empty, and every posting slot it allocates empty; the batch is as
\* it was; what it changes is the registry, the dictionaries, the term
\* lists and the number of slots, which becomes the number of pairs.
C16_DictionaryPassFrame ==
    [][\A r \in Runs :
           (pc[r] = "dict" /\ pc'[r] = "docs") =>
               /\ NoDocumentData(seg[r])
               /\ NoDocumentData(seg'[r])
               /\ results' = results
               /\ next'[r] = 0
               /\ Len(seg'[r].Postings) = Cardinality(PairsOf(batch))
               /\ Len(seg'[r].PostingsLocs) = Len(seg'[r].Postings)
               /\ Len(seg'[r].Freqs) = Len(seg'[r].Postings)
               /\ Len(seg'[r].Norms) = Len(seg'[r].Postings)
               /\ Len(seg'[r].Locfields) = Len(seg'[r].Postings)
               /\ Len(seg'[r].Locstarts) = Len(seg'[r].Postings)
               /\ Len(seg'[r].Locends) = Len(seg'[r].Postings)
               /\ Len(seg'[r].Locpos) = Len(seg'[r].Postings)
               /\ Len(seg'[r].Locarraypos) = Len(seg'[r].Postings)]_vars

\* The state initializeDict leaves for a batch with a stored field that asks
\* for doc values and a field with a term: a slot, and no document.
C16_Witness ==
    \E r \in Runs :
        /\ pc[r] = "docs" /\ next[r] = 0
        /\ Len(seg[r].Postings) >= 1
        /\ Len(seg[r].FieldsInv) >= 2
        /\ Len(seg[r].Stored) = 0
        /\ \E i \in DOMAIN batch : \E k \in DOMAIN batch[i].Document.Fields :
               batch[i].Document.Fields[k].stored /\ batch[i].Document.Fields[k].docValues

\* C17 (location-membership set): in every state of a build each
\* location-membership set is a subset of its membership set and holds
\* documents already assembled only; an assembled document is in the
\* membership set of a pair exactly when it holds the term in a field of
\* that name, and in the location-membership set exactly when the location
\* lists of the term over its fields of that name hold a location.
C17_LocationMembership ==
    \A r \in Runs :
        /\ \A pid \in DOMAIN seg[r].PostingsLocs :
               /\ seg[r].PostingsLocs[pid] \subseteq seg[r].Postings[pid]
               /\ seg[r].PostingsLocs[pid] \subseteq Assembled(r)
        /\ pc[r] \in {"docs", "done"} =>
               \A p \in PairsOf(batch) : \A d \in Assembled(r) :
                   LET pid == Pid(seg[r], p[1], p[2]) + 1
                   IN  /\ d \in seg[r].Postings[pid] <=> HasTerm(batch[d + 1], p[1], p[2])
                       /\ d \in seg[r].PostingsLocs[pid] <=>
                              AllLocations(batch[d + 1], p[1], p[2], 1) # <<>>

\* A finished build with a term counted without location in document 0 and
\* located in document 1: both are members, document 1 alone has locations.
C17_Witness ==
    \E r \in Runs : \E pid \in DOMAIN seg[r].Postings :
        /\ pc[r] = "done"
        /\ seg[r].Postings[pid] = {0, 1}
        /\ seg[r].PostingsLocs[pid] = {1}

\* C18 (location sequences): in every state of the assembly the five
\* location sequences of a pair's slot have one length, the number of
\* location records of the term over the assembled documents; the records
\* of document d follow those of the documents below d, in the order of the
\* term's location lists over d's fields of that name; the field recorded is
\* the id of the name the location gives, or the id of the collating field
\* when it gives none; a path without element is recorded as nil, another
\* path as it is.
C18_LocationSequences ==
    \A r \in Runs : pc[r] \in {"docs", "done"} =>
        \A p \in PairsOf(batch) :
            LET s == seg[r]
                pid == Pid(s, p[1], p[2]) + 1
                total == LocationsBelow(p[1], p[2], next[r])
            IN  /\ Len(s.Locfields[pid]) = total
                /\ Len(s.Locstarts[pid]) = total
                /\ Len(s.Locends[pid]) = total
                /\ Len(s.Locpos[pid]) = total
                /\ Len(s.Locarraypos[pid]) = total
                /\ \A d \in Assembled(r) :
                       LET locs == AllLocations(batch[d + 1], p[1], p[2], 1)
                           off == LocationsBelow(p[1], p[2], d)
                       IN  /\ (locs # <<>>) <=> d \in s.PostingsLocs[pid]
                           /\ \A i \in DOMAIN locs :
                                  /\ IF locs[i].Field # ""
                                     THEN /\ locs[i].Field \in DOMAIN s.FieldsMap
                                          /\ s.Locfields[pid][off + i] =
                                                 s.FieldsMap[locs[i].Field] - 1
                                     ELSE s.Locfields[pid][off + i] =
                                              s.FieldsMap[p[1]] - 1
                                  /\ s.Locstarts[pid][off + i] = locs[i].Start
                                  /\ s.Locends[pid][off + i] = locs[i].End
                                  /\ s.Locpos[pid][off + i] = locs[i].Position
                                  /\ s.Locarraypos[pid][off + i] =
                                         (IF locs[i].ArrayPositions.path = <<>>
                                          THEN NilPath
                                          ELSE locs[i].ArrayPositions)

\* A finished build whose "dog" of "body" has a location without field name
\* in document 0 and one naming "more", with an empty non-nil path, in
\* document 1: the slot records the ids of "body" and "more" and two nil
\* paths.
C18_Witness ==
    \E r \in Runs :
        /\ pc[r] = "done"
        /\ Len(batch) = 2
        /\ {"body", "more"} \subseteq DOMAIN seg[r].FieldsMap
        /\ HasOrdinal(seg[r], <<"body", Dog>>)
        /\ LET pid == Pid(seg[r], "body", Dog) + 1
           IN  /\ seg[r].PostingsLocs[pid] = {0, 1}
               /\ seg[r].Locfields[pid] = <<seg[r].FieldsMap["body"] - 1,
                                            seg[r].FieldsMap["more"] - 1>>
               /\ seg[r].Locarraypos[pid] = <<NilPath, NilPath>>
               /\ AllLocations(batch[2], "body", Dog, 1)[1].ArrayPositions = Path(<<>>)

\* C19 (the batch is left unchanged): in every state of two builds of one
\* batch object the analysis results are as the analysis produced them, and
\* when both builds have returned they have recorded the same frequencies
\* for every pair.
C19_BatchUnchanged ==
    /\ results[1] = batch
    /\ (pc[1] = "done" /\ pc[2] = "done") =>
           \A p \in PairsOf(batch) :
               seg[1].Freqs[Pid(seg[1], p[1], p[2]) + 1]
                   = seg[2].Freqs[Pid(seg[2], p[1], p[2]) + 1]

\* The names of the regular fields that ask for doc values in the documents
\* 0..n-1 of the batch.
DocValueNames(n) ==
    UNION {{batch[i].Document.Fields[k].name :
               k \in {j \in DOMAIN batch[i].Document.Fields :
                         batch[i].Document.Fields[j].docValues}} :
              i \in 1..n}

\* Whether the flag of the 0-based field id f is set in s.
Flag(s, f) == Lookup(s.DocValueFields, f, FALSE)

\* C20 (doc-values flags): in every state of the assembly, and so after the
\* build, the flag of a registered field is set exactly when a regular
\* field of that name in a document assembled so far asks for doc values;
\* no flag is held for an unregistered id; no step clears a flag.  So the
\* composite fields and the fields a location alone names have no flag.
C20_DocValueFlags ==
    [][\A r \in Runs :
           /\ \A f \in DOMAIN seg[r].DocValueFields :
                  Flag(seg[r], f) => Flag(seg'[r], f)
           /\ pc'[r] \in {"docs", "done"} =>
                  /\ \A f \in DOMAIN seg'[r].DocValueFields :
                         f + 1 \in DOMAIN seg'[r].FieldsInv
                  /\ \A n \in DOMAIN seg'[r].FieldsMap :
                         Flag(seg'[r], seg'[r].FieldsMap[n] - 1)
                             <=> n \in DocValueNames(next'[r])]_vars

\* A finished build whose document 0 has a field "body" asking for doc
\* values and whose document 1 has a composite field with a location naming
\* "extra": "body" has its flag, "_all" and "extra" are registered without.
C20_Witness ==
    \E r \in Runs :
        /\ pc[r] = "done"
        /\ {"body", "_all", "extra"} \subseteq DOMAIN seg[r].FieldsMap
        /\ Flag(seg[r], seg[r].FieldsMap["body"] - 1)
        /\ ~Flag(seg[r], seg[r].FieldsMap["_all"] - 1)
        /\ ~Flag(seg[r], seg[r].FieldsMap["extra"] - 1)
        /\ DocValueNames(1) = {"body"}

====
